---- MODULE Spec2Model ----
(***************************************************************************)
(* A model of the validator-combinator engine of railway-ts-validation:    *)
(* composeRight and formatErrors (utils), object (core), array (array) and *)
(* union (union), together with the leaf validators they are composed      *)
(* from.  Every combinator is a pure function of (value, path); an action  *)
(* of the model is one call of a combinator on inputs drawn from bounded   *)
(* sets, and the state records the call and what it returned.              *)
(*                                                                         *)
(* JavaScript strings are modelled as sequences of symbols.  A symbol is   *)
(* either one character ("a", "2", ".", "[") or a literal of the source    *)
(* that the model never takes apart ("Expected an object").  Template      *)
(* literals are concatenations (\o), so `Unexpected field: '${key}'` is    *)
(* <<"Unexpected field: '">> \o key \o <<"'">>.                            *)
(***************************************************************************)
EXTENDS Integers, Sequences, FiniteSets, TLC

VARIABLES op, vdr, input, path, res, formatted, again

vars == <<op, vdr, input, path, res, formatted, again>>

(***************************************************************************)
(* Bounds of the model.                                                    *)
(***************************************************************************)
MaxSteps == 3   \* longest composeRight chain
MaxLen == 3     \* longest input array
MaxCands == 2   \* most candidates of a union
MaxSegs == 2    \* longest path handed to formatErrors

(***************************************************************************)
(* Strings.                                                                *)
(***************************************************************************)
Digits == <<"0", "1", "2", "3", "4", "5", "6", "7", "8", "9">>

IsDigit(c) == \E d \in 1..10 : Digits[d] = c

DigitVal(c) == (CHOOSE d \in 1..10 : Digits[d] = c) - 1

\* /^\d+$/.test(segment)
IsDigits(s) == Len(s) > 0 /\ \A j \in 1..Len(s) : IsDigit(s[j])

RECURSIVE ToNumber(_)
\* Number(s) of a string of decimal digits
ToNumber(s) ==
  IF Len(s) = 0 THEN 0
  ELSE 10 * ToNumber(SubSeq(s, 1, Len(s) - 1)) + DigitVal(s[Len(s)])

RECURSIVE IndexToString(_)
\* i.toString() of a non-negative integer
IndexToString(i) ==
  IF i < 10 THEN <<Digits[i + 1]>>
  ELSE IndexToString(i \div 10) \o <<Digits[(i % 10) + 1]>>

(***************************************************************************)
(* The untyped input: null, undefined, booleans, numbers, strings, arrays  *)
(* and plain objects.  An object keeps its keys in insertion order; a      *)
(* function value stands for a member inherited from Object.prototype.     *)
(***************************************************************************)
Null == [t |-> "null"]
Undefined == [t |-> "undefined"]
Bool(b) == [t |-> "boolean", b |-> b]
Num(n) == [t |-> "number", n |-> n]
Str(s) == [t |-> "string", s |-> s]
Arr(xs) == [t |-> "array", items |-> xs]
Obj(ks, f) == [t |-> "object", keys |-> ks, get |-> f]
Fn(name) == [t |-> "function", name |-> name]

EmptyObj == Obj(<<>>, <<>>)

\* typeof value
TypeOf(x) ==
  IF x.t \in {"null", "array", "object"} THEN "object" ELSE x.t

\* Array.isArray(value)
IsArray(x) == x.t = "array"

\* Members every object inherits from Object.prototype
ProtoKeys == {<<"toString">>, <<"constructor">>}

\* A canonical array index: decimal digits without a leading zero
IsArrayIndex(k) == IsDigits(k) /\ (Len(k) = 1 \/ k[1] # "0")

RECURSIVE SortByNumber(_)
\* integer-like keys in ascending numeric order
SortByNumber(ks) ==
  IF Len(ks) = 0 THEN <<>>
  ELSE LET m == CHOOSE j \in 1..Len(ks) :
                  \A l \in 1..Len(ks) : ToNumber(ks[j]) <= ToNumber(ks[l])
       IN <<ks[m]>> \o SortByNumber(SubSeq(ks, 1, m - 1) \o SubSeq(ks, m + 1, Len(ks)))

\* Object.keys(obj) / for (key in obj): integer-like keys ascending, then the
\* other keys in insertion order; the indices of an array
OwnKeys(x) ==
  IF x.t = "array" THEN [j \in 1..Len(x.items) |-> IndexToString(j - 1)]
  ELSE IF x.t = "object"
  THEN SortByNumber(SelectSeq(x.keys, IsArrayIndex))
         \o SelectSeq(x.keys, LAMBDA k : ~IsArrayIndex(k))
  ELSE <<>>

\* Object.prototype.hasOwnProperty.call(obj, key)
HasOwn(x, k) ==
  \/ x.t = "object" /\ k \in DOMAIN x.get
  \/ x.t = "array" /\ (k = <<"length">> \/ (IsArrayIndex(k) /\ ToNumber(k) < Len(x.items)))

\* obj[key] of a non-null object or array
GetProp(x, k) ==
  IF x.t = "object" /\ k \in DOMAIN x.get THEN x.get[k]
  ELSE IF x.t = "array" /\ IsArrayIndex(k) /\ ToNumber(k) < Len(x.items)
  THEN x.items[ToNumber(k) + 1]
  ELSE IF x.t = "array" /\ k = <<"length">> THEN Num(Len(x.items))
  ELSE IF k \in ProtoKeys THEN Fn(k)
  ELSE Undefined

RECURSIVE Flatten(_)
\* array.flat(): the concatenation of a list of lists
Flatten(ss) == IF Len(ss) = 0 THEN <<>> ELSE Head(ss) \o Flatten(Tail(ss))

(***************************************************************************)
(* Outcomes (Result<O, ValidationError[]>) and errors.                     *)
(***************************************************************************)
ok(v) == [ok |-> TRUE, value |-> v, error |-> <<>>]
err(es) == [ok |-> FALSE, value |-> Undefined, error |-> es]
isOk(r) == r.ok
isErr(r) == ~r.ok

ValidationError(p, m) == [path |-> p, message |-> m]

(***************************************************************************)
(* Validators, as terms.  Leaves first.                                    *)
(***************************************************************************)
StringV == [k |-> "string"]
NumberV == [k |-> "number"]
ParseNumberV == [k |-> "parseNumber"]
StringValidatorV == [k |-> "stringValidator"]

ComposeRightV(vs) == [k |-> "composeRight", validators |-> vs]

\* object(schema, options): the schema is an object whose values are
\* validators; options.strict is a boolean or is not given
ObjectV(schema, strict) == [k |-> "object", schema |-> schema, strict |-> strict]

\* array(itemValidator)
ArrayV(item) == [k |-> "array", itemValidator |-> item]

\* union(validators, options): options.collectAllErrors is a boolean or is
\* not given, options.errorPrefix is a string or is not given
UnionV(vs, collectAllErrors, errorPrefix) ==
  [k |-> "union", validators |-> vs, collectAllErrors |-> collectAllErrors,
   errorPrefix |-> errorPrefix]

\* required(validator, message): message is a string or is not given
RequiredV(v, message) == [k |-> "required", validator |-> v, message |-> message]

\* optional(validator)
OptionalV(v) == [k |-> "optional", validator |-> v]

\* discriminatedUnion(discriminantField, validatorMap, fallbackMessage): the
\* map is an object whose values are validators; fallbackMessage is a string
\* or is not given
DiscriminatedUnionV(field, map, fallbackMessage) ==
  [k |-> "discriminatedUnion", discriminantField |-> field, validatorMap |-> map,
   fallbackMessage |-> fallbackMessage]

\* withCommonFields(commonSchema, specificSchema)
WithCommonFieldsV(common, specific) ==
  [k |-> "withCommonFields", commonSchema |-> common, specificSchema |-> specific]

\* the doubleNumberValidator of the array tests, a Validator<number, number>
DoubleV == [k |-> "doubleNumberValidator"]

\* string(): fails unless typeof value is "string"
string(value, p) ==
  IF TypeOf(value) # "string"
  THEN err(<<ValidationError(p, <<"Must be a string">>)>>)
  ELSE ok(value)

\* number(): fails unless typeof value is "number"
number(value, p) ==
  IF TypeOf(value) # "number"
  THEN err(<<ValidationError(p, <<"Must be a number">>)>>)
  ELSE ok(value)

\* parseNumber(): numbers pass, strings are converted.  The strings of the
\* model hold digits and letters only, so trim() changes nothing and
\* Number(s) is a number exactly for the non-empty digit strings.
parseNumber(value, p) ==
  IF TypeOf(value) = "number" THEN ok(value)
  ELSE IF TypeOf(value) = "string" /\ value.s = <<>>
  THEN err(<<ValidationError(p, <<"Must be a valid number">>)>>)
  ELSE IF TypeOf(value) = "string" /\ IsDigits(value.s)
  THEN ok(Num(ToNumber(value.s)))
  ELSE err(<<ValidationError(p, <<"Must be a valid number">>)>>)

\* doubleNumberValidator: ok(value * 2), of a number
doubleNumberValidator(value, p) == ok(Num(value.n * 2))

\* the stringValidator of the tests: reports the empty path, whatever path
\* it is handed
stringValidator(value, p) ==
  IF TypeOf(value) # "string"
  THEN err(<<ValidationError(<<>>, <<"Expected a string">>)>>)
  ELSE ok(value)

(***************************************************************************)
(* The combinators.  Exec(v, value, p) is the call v(value, p): it yields  *)
(* the outcome and the log of the calls the combinator made of the         *)
(* validators it was built from, in the order it made them.                *)
(***************************************************************************)
RECURSIVE Exec(_, _, _)

Run(v, value, p) == Exec(v, value, p).out

Call(i, value, p) == [i |-> i, x |-> value, p |-> p]

Leaf(r) == [out |-> r, log |-> <<>>]

composeStopsNever(result) == FALSE

\* composeRight: if (isErr(result)) return result;
composeStops(result) == isErr(result)

RECURSIVE composeLoop(_, _, _, _, _)
\* composeRight: the loop over the validators, from step i on
composeLoop(validators, i, result, p, log) ==
  IF i > Len(validators) THEN [out |-> result, log |-> log]
  ELSE IF composeStops(result) THEN [out |-> result, log |-> log]
  ELSE LET nextResult == Run(validators[i], result.value, p)
       IN composeLoop(validators, i + 1,
                      IF isErr(nextResult) THEN nextResult ELSE ok(nextResult.value),
                      p, Append(log, Call(i, result.value, p)))

RECURSIVE composeEach(_, _, _, _, _, _)
composeEach(validators, i, value, result, p, log) ==
  IF i > Len(validators) \/ isErr(result) THEN [out |-> result, log |-> log]
  ELSE LET nextResult == Run(validators[i], value, p)
       IN composeEach(validators, i + 1, value,
                      IF isErr(nextResult) THEN nextResult ELSE ok(nextResult.value),
                      p, Append(log, Call(i, value, p)))

composeRightUnthreaded(validators, value, p) ==
  composeEach(validators, 1, value, ok(value), p, <<>>)

composeRightFromSecond(validators, value, p) ==
  composeLoop(validators, 2, ok(value), p, <<>>)

composeRight(validators, value, p) == composeLoop(validators, 1, ok(value), p, <<>>)

\* object: obj === null || typeof obj !== "object"
notAnObject(obj) == obj = Null \/ TypeOf(obj) # "object"

strictByDefaultOff(strict) == IF strict = Undefined THEN FALSE ELSE strict.b

\* object: { strict = true }: { strict?: boolean } = {}
strictOption(strict) == IF strict = Undefined THEN TRUE ELSE strict.b

checksExtraKeysAlways(strict) == TRUE

\* object: if (strict !== false)
checksExtraKeys(strict) == strictOption(strict) # FALSE

\* object: Object.keys(obj).filter((key) => !hasOwnProperty.call(schema, key))
extraKeys(obj, schema) == SelectSeq(OwnKeys(obj), LAMBDA key : ~HasOwn(schema, key))

\* object: `Unexpected field: '${key}'`
unexpectedField(key) == <<"Unexpected field: '">> \o key \o <<"'">>

\* object: the errors pushed for the extra keys
extraKeyErrors(obj, schema, parentPath) ==
  LET ks == extraKeys(obj, schema)
  IN [j \in 1..Len(ks) |->
        ValidationError(Append(parentPath, ks[j]), unexpectedField(ks[j]))]

\* the own property key of obj, created or overwritten
defineProp(obj, key, value) ==
  Obj(IF key \in DOMAIN obj.get THEN obj.keys ELSE Append(obj.keys, key),
      (key :> value) @@ obj.get)

setPropUnlessUndefined(obj, key, value) ==
  IF value = Undefined THEN obj ELSE defineProp(obj, key, value)

\* object: validatedObj[key] = result.value; formatErrors: acc[path] = message.
\* An assignment to the key "__proto__" of an object literal reaches the
\* setter inherited from Object.prototype and creates no own property.
setProp(obj, key, value) ==
  IF key = <<"__proto__">> THEN obj ELSE defineProp(obj, key, value)

pushFirstFailureOnly(allErrors, errors) ==
  IF allErrors = <<>> THEN errors ELSE allErrors

\* object, array: allErrors.push(...result.error)
pushErrors(allErrors, errors) == allErrors \o errors

RECURSIVE objectLoop(_, _, _, _, _, _, _, _)
\* object: for (const key in schema), from the j-th key on
objectLoop(schema, keys, j, obj, parentPath, allErrors, validatedObj, log) ==
  IF j > Len(keys)
  THEN [out |-> IF Len(allErrors) > 0 THEN err(allErrors) ELSE ok(validatedObj),
        log |-> log]
  ELSE LET key == keys[j]
           value == GetProp(obj, key)
           fieldPath == Append(parentPath, key)
           result == Run(schema.get[key], value, fieldPath)
       IN objectLoop(schema, keys, j + 1, obj, parentPath,
                     IF isOk(result) THEN allErrors
                     ELSE pushErrors(allErrors, result.error),
                     IF isOk(result) THEN setProp(validatedObj, key, result.value)
                     ELSE validatedObj,
                     Append(log, Call(key, value, fieldPath)))

object(schema, strict, obj, parentPath) ==
  IF notAnObject(obj)
  THEN Leaf(err(<<ValidationError(parentPath, <<"Expected an object">>)>>))
  ELSE objectLoop(schema, OwnKeys(schema), 1, obj, parentPath,
                  IF checksExtraKeys(strict)
                  THEN extraKeyErrors(obj, schema, parentPath) ELSE <<>>,
                  EmptyObj, <<>>)

\* array: !Array.isArray(value)
notAnArray(value) == ~IsArray(value)

itemPathOfParent(parentPath, i) == parentPath

\* array: const itemPath = [...parentPath, i.toString()]
itemPath(parentPath, i) == Append(parentPath, IndexToString(i))

pushItemFront(validatedItems, value) == <<value>> \o validatedItems

\* array: validatedItems.push(result.value)
pushItem(validatedItems, value) == Append(validatedItems, value)

RECURSIVE arrayLoop(_, _, _, _, _, _, _)
\* array: for (const [i, item] of value.entries()), from index i on
arrayLoop(itemValidator, items, i, parentPath, allErrors, validatedItems, log) ==
  IF i >= Len(items)
  THEN [out |-> IF Len(allErrors) > 0 THEN err(allErrors) ELSE ok(Arr(validatedItems)),
        log |-> log]
  ELSE LET item == items[i + 1]
           result == Run(itemValidator, item, itemPath(parentPath, i))
       IN arrayLoop(itemValidator, items, i + 1, parentPath,
                    IF isOk(result) THEN allErrors
                    ELSE pushErrors(allErrors, result.error),
                    IF isOk(result) THEN pushItem(validatedItems, result.value)
                    ELSE validatedItems,
                    Append(log, Call(i, item, itemPath(parentPath, i))))

expectedAnArrayAtRoot(parentPath) ==
  err(<<ValidationError(<<>>, <<"Expected an array">>)>>)

\* array: return err([{ path: parentPath, message: "Expected an array" }])
expectedAnArray(parentPath) ==
  err(<<ValidationError(parentPath, <<"Expected an array">>)>>)

array(itemValidator, value, parentPath) ==
  IF notAnArray(value)
  THEN Leaf(expectedAnArray(parentPath))
  ELSE arrayLoop(itemValidator, value.items, 0, parentPath, <<>>, <<>>, <<>>)

formatSegmentDotted(rendered, segment, index) ==
  IF index = 0 THEN segment ELSE rendered \o <<".">> \o segment

formatSegmentNoBrackets(rendered, segment, index) ==
  IF IsDigits(segment) THEN rendered \o segment
  ELSE IF index = 0 THEN segment
  ELSE rendered \o <<".">> \o segment

\* formatErrors: the callback of error.path.reduce
formatSegment(rendered, segment, index) ==
  IF IsDigits(segment) THEN rendered \o <<"[">> \o segment \o <<"]">>
  ELSE IF index = 0 THEN segment
  ELSE rendered \o <<".">> \o segment

RECURSIVE reducePath(_, _, _)
\* formatErrors: error.path.reduce(..., ""), from segment index on
reducePath(segments, index, rendered) ==
  IF index >= Len(segments) THEN rendered
  ELSE reducePath(segments, index + 1,
                  formatSegment(rendered, segments[index + 1], index))

formattedPath(errorPath) == reducePath(errorPath, 0, <<>>)

RECURSIVE reduceErrors(_, _, _)
\* formatErrors: errors.reduce(..., {}), from the j-th error on
reduceErrors(errors, j, acc) ==
  IF j > Len(errors) THEN acc
  ELSE reduceErrors(errors, j + 1,
                    setProp(acc, formattedPath(errors[j].path), Str(errors[j].message)))

formatErrors(errors) == reduceErrors(errors, 1, EmptyObj)

\* union: const { collectAllErrors = true, errorPrefix } = options || {}
collectAllErrorsOption(collectAllErrors) ==
  IF collectAllErrors = Undefined THEN TRUE ELSE collectAllErrors.b

\* the truthiness of an optional string: `errorPrefix ? ... : ...`
Truthy(x) == x.t = "string" /\ x.s # <<>>

\* union: errorPrefix ? `${errorPrefix}: ${error.message}` : error.message
prefixed(errorPrefix, error) ==
  ValidationError(error.path,
                  IF Truthy(errorPrefix)
                  THEN errorPrefix.s \o <<": ">> \o error.message
                  ELSE error.message)

combinedErrorsUnprefixed(allErrors, errorPrefix) == err(Flatten(allErrors))

\* union: allErrors.flat().map(...), returned as the failure
combinedErrors(allErrors, errorPrefix) ==
  LET flat == Flatten(allErrors)
  IN err([j \in 1..Len(flat) |-> prefixed(errorPrefix, flat[j])])

\* union: if (!collectAllErrors) break
unionBreaks(collectAllErrors) == ~collectAllErrorsOption(collectAllErrors)

RECURSIVE unionLoop(_, _, _, _, _, _, _, _)
\* union: for (const validator of validators), from candidate i on
unionLoop(validators, i, value, parentPath, collectAllErrors, errorPrefix, allErrors, log) ==
  IF i > Len(validators)
  THEN [out |-> combinedErrors(allErrors, errorPrefix), log |-> log]
  ELSE LET result == Run(validators[i], value, parentPath)
           called == Append(log, Call(i, value, parentPath))
       IN IF isOk(result) THEN [out |-> result, log |-> called]
          ELSE IF unionBreaks(collectAllErrors)
          THEN [out |-> combinedErrors(Append(allErrors, result.error), errorPrefix),
                log |-> called]
          ELSE unionLoop(validators, i + 1, value, parentPath, collectAllErrors,
                         errorPrefix, Append(allErrors, result.error), called)

noValidatorsAtRoot(parentPath) ==
  err(<<ValidationError(<<>>, <<"No validators provided to union">>)>>)

noValidatorsSilent(parentPath) == err(<<>>)

\* union: validators.length === 0
noValidators(parentPath) ==
  err(<<ValidationError(parentPath, <<"No validators provided to union">>)>>)

union(validators, collectAllErrors, errorPrefix, value, parentPath) ==
  IF Len(validators) = 0
  THEN Leaf(noValidators(parentPath))
  ELSE unionLoop(validators, 1, value, parentPath, collectAllErrors, errorPrefix,
                 <<>>, <<>>)

lookupFirstVariant(validatorMap, discriminantValue) ==
  IF validatorMap.keys = <<>> THEN Undefined
  ELSE validatorMap.get[validatorMap.keys[1]]

\* discriminatedUnion: validatorMap[discriminantValue], a property read that
\* also finds the members the map inherits from Object.prototype
lookupVariant(validatorMap, discriminantValue) ==
  GetProp(validatorMap, discriminantValue)

\* discriminatedUnion: validator(value, parentPath) when validator is a
\* member inherited from Object.prototype: Object(value) is value itself,
\* toString without a receiver is "[object Undefined]"; neither is a Result
callInherited(validator, value) ==
  IF validator.name = <<"constructor">> THEN value
  ELSE Str(<<"[object Undefined]">>)

\* discriminatedUnion: err([{ path: [...parentPath, discriminantField], message }])
discriminantError(parentPath, discriminantField, message) ==
  err(<<ValidationError(Append(parentPath, discriminantField), message)>>)

discriminatedUnion(discriminantField, validatorMap, fallbackMessage, value, parentPath) ==
  IF value = Null \/ TypeOf(value) # "object"
  THEN Leaf(err(<<ValidationError(parentPath, <<"Expected an object">>)>>))
  ELSE
    LET discriminantValue == GetProp(value, discriminantField)
        validator == lookupVariant(validatorMap, discriminantValue.s)
        fallback == IF fallbackMessage = Undefined
                    THEN <<"Invalid discriminant value for '">>
                           \o discriminantField \o <<"'">>
                    ELSE fallbackMessage.s
    IN IF TypeOf(discriminantValue) # "string"
       THEN Leaf(discriminantError(parentPath, discriminantField,
                   <<"Missing or invalid discriminant field '">>
                     \o discriminantField \o <<"'">>))
       ELSE IF validator = Undefined
       THEN Leaf(discriminantError(parentPath, discriminantField,
                   fallback \o <<": '">> \o discriminantValue.s \o <<"'">>))
       ELSE IF "k" \in DOMAIN validator
       THEN [out |-> Run(validator, value, parentPath),
             log |-> <<Call(CHOOSE j \in 1..Len(validatorMap.keys) :
                              validatorMap.get[validatorMap.keys[j]] = validator,
                            value, parentPath)>>]
       ELSE Leaf(callInherited(validator, value))

\* the own enumerable keys a spread copies: of a string, its indices
spreadKeys(x) ==
  IF x.t = "string" THEN [j \in 1..Len(x.s) |-> IndexToString(j - 1)]
  ELSE OwnKeys(x)

RECURSIVE spread(_, _, _)
\* { ...target, ...source }, key by key
spread(target, source, keys) ==
  IF keys = <<>> THEN target
  ELSE spread(defineProp(target, Head(keys),
                      IF source.t = "string"
                      THEN Str(<<source.s[ToNumber(Head(keys)) + 1]>>)
                      ELSE GetProp(source, Head(keys))),
              source, Tail(keys))

combinedValueCommonLast(commonValue, specificValue) ==
  spread(spread(EmptyObj, specificValue, spreadKeys(specificValue)),
         commonValue, spreadKeys(commonValue))

\* withCommonFields: { ...commonResult.value, ...specificResult.value }
combinedValue(commonValue, specificValue) ==
  spread(spread(EmptyObj, commonValue, spreadKeys(commonValue)),
         specificValue, spreadKeys(specificValue))

withCommonFields(commonSchema, specificSchema, value, p) ==
  LET commonResult == Run(commonSchema, value, p)
      specificResult == Run(specificSchema, value, p)
  IN IF isErr(commonResult)
     THEN [out |-> commonResult, log |-> <<Call(1, value, p)>>]
     ELSE IF isErr(specificResult)
     THEN [out |-> specificResult, log |-> <<Call(1, value, p), Call(2, value, p)>>]
     ELSE [out |-> ok(combinedValue(commonResult.value, specificResult.value)),
           log |-> <<Call(1, value, p), Call(2, value, p)>>]

requiredRejectsUndefinedOnly(value) == value = Undefined

\* required: value === undefined || value === null
requiredRejects(value) == value = Undefined \/ value = Null

\* message: string = "Field is required"
required(validator, message, value, p) ==
  IF requiredRejects(value)
  THEN Leaf(err(<<ValidationError(p, IF message = Undefined
                                     THEN <<"Field is required">>
                                     ELSE message.s)>>))
  ELSE [out |-> Run(validator, value, p), log |-> <<Call(1, value, p)>>]

optionalAbsentKeepsValue(value) == ok(value)

\* optional: return ok(undefined)
optionalAbsent(value) == ok(Undefined)

optional(validator, value, p) ==
  IF value = Undefined \/ value = Null
  THEN Leaf(optionalAbsent(value))
  ELSE [out |-> Run(validator, value, p), log |-> <<Call(1, value, p)>>]

Exec(v, value, p) ==
  CASE v.k = "string" -> Leaf(string(value, p))
    [] v.k = "number" -> Leaf(number(value, p))
    [] v.k = "parseNumber" -> Leaf(parseNumber(value, p))
    [] v.k = "stringValidator" -> Leaf(stringValidator(value, p))
    [] v.k = "doubleNumberValidator" -> Leaf(doubleNumberValidator(value, p))
    [] v.k = "composeRight" -> composeRight(v.validators, value, p)
    [] v.k = "object" -> object(v.schema, v.strict, value, p)
    [] v.k = "array" -> array(v.itemValidator, value, p)
    [] v.k = "discriminatedUnion" ->
         discriminatedUnion(v.discriminantField, v.validatorMap, v.fallbackMessage,
                            value, p)
    [] v.k = "withCommonFields" ->
         withCommonFields(v.commonSchema, v.specificSchema, value, p)
    [] v.k = "required" -> required(v.validator, v.message, value, p)
    [] v.k = "optional" -> optional(v.validator, value, p)
    [] v.k = "union" ->
         union(v.validators, v.collectAllErrors, v.errorPrefix, value, p)

(***************************************************************************)
(* Inputs.                                                                 *)
(***************************************************************************)
RECURSIVE SeqsUpTo(_, _)
\* the sequences over S of length at most n
SeqsUpTo(S, n) ==
  IF n = 0 THEN {<<>>}
  ELSE LET shorter == SeqsUpTo(S, n - 1)
       IN shorter \cup {Append(s, e) : s \in {t \in shorter : Len(t) = n - 1}, e \in S}

Leaves == {StringV, NumberV, ParseNumberV, StringValidatorV}

Paths == {<<>>, <<<<"p">>>>, << <<"p">>, <<"0">> >>}

Scalars == {Null, Undefined, Bool(TRUE), Num(7), Str(<<"1", "2">>), Str(<<"a", "b">>), Str(<<>>)}

KeyA == <<"a">>
KeyB == <<"b">>
KeyX == <<"x">>
Key1 == <<"1">>

\* the object literal { ks[1]: xs[1], ks[2]: xs[2], ... }
Literal(ks, xs) ==
  Obj(ks, [key \in {ks[j] : j \in 1..Len(ks)} |->
             xs[CHOOSE j \in 1..Len(ks) : ks[j] = key]])

\* the same object with its keys inserted in the opposite order
Reversed(o) == Obj([j \in 1..Len(o.keys) |-> o.keys[Len(o.keys) + 1 - j]], o.get)

AB == Str(<<"a", "b">>)
N7 == Num(7)
S12 == Str(<<"1", "2">>)

\* object({ b: string() })
InnerObject == ObjectV(Literal(<<KeyB>>, <<StringV>>), Undefined)

InnerGood == Literal(<<KeyB>>, <<AB>>)
InnerBad == Literal(<<KeyB, KeyX>>, <<N7, N7>>)

FieldValidators == {StringV, NumberV, ParseNumberV, InnerObject}

Schemas ==
  {EmptyObj, Literal(<<KeyB, Key1>>, <<StringV, NumberV>>),
   Literal(<<<<"toString">>>>, <<StringV>>),
   Literal(<<KeyA>>, <<ArrayV(InnerObject)>>),
   Literal(<<KeyA, KeyB>>, <<OptionalV(StringV), ParseNumberV>>),
   Literal(<<<<"toString">>>>, <<OptionalV(StringV)>>)}
    \cup {Literal(<<KeyA>>, <<v>>) : v \in FieldValidators}
    \cup {Literal(<<KeyA, KeyB>>, <<v, w>>) : v, w \in FieldValidators}

StrictOptions == {Undefined, Bool(TRUE), Bool(FALSE)}

ObjectValidators == {ObjectV(sch, st) : sch \in Schemas, st \in StrictOptions}

\* the object that has key ks[j] exactly when xs[j] is not Absent
Absent == [t |-> "absent"]

Present(ks, xs) ==
  LET here == SelectSeq([j \in 1..Len(ks) |-> j], LAMBDA j : xs[j] # Absent)
  IN Literal([j \in 1..Len(here) |-> ks[here[j]]], [j \in 1..Len(here) |-> xs[here[j]]])

Records ==
  LET rs == {Present(<<KeyA, KeyB, KeyX, Key1>>, <<a, b, x, n>>) :
               a \in {Absent, AB, N7, InnerGood, InnerBad},
               b \in {Absent, S12, N7, Undefined},
               x \in {Absent, N7},
               n \in {Absent, N7}}
  IN rs \cup {Reversed(r) : r \in rs}

Items == {N7, S12, AB, InnerGood, InnerBad}

Arrays == {Arr(xs) : xs \in SeqsUpTo(Items, MaxLen)}

\* { a: [ {b: ...}, ... ] }
Nested ==
  {Literal(<<KeyA>>, <<Arr(xs)>>) : xs \in SeqsUpTo({InnerGood, InnerBad}, MaxLen)}

Candidates == Leaves \cup {InnerObject}

ComposeInputs == Scalars \cup {Arr(<<>>), EmptyObj, InnerGood, InnerBad}

ObjectInputs == Scalars \cup Records \cup Nested \cup {Arr(xs) : xs \in SeqsUpTo({AB}, MaxLen)}

ObjectPaths == {<<>>, <<<<"p">>>>}

ItemValidators ==
  Leaves \cup {InnerObject, ArrayV(NumberV), ComposeRightV(<<ParseNumberV, NumberV>>)}

ArrayValidators == {ArrayV(v) : v \in ItemValidators}

ArrayInputs == Scalars \cup Arrays \cup {EmptyObj, InnerGood, Arr(<<Arr(<<N7, AB>>), Arr(<<>>)>>)}

(***************************************************************************)
(* The state machine.  A behaviour is one validation run: the initial      *)
(* state holds a validator, a value and a path awaiting the call, and the  *)
(* action of the validator's combinator makes the call and records what it *)
(* returned.                                                               *)
(***************************************************************************)
NoResult == Leaf(ok(Undefined))

Ready(vs, xs, ps) ==
  /\ op = "ready"
  /\ vdr \in vs
  /\ input \in xs
  /\ path \in ps
  /\ res = NoResult
  /\ formatted = EmptyObj
  /\ again = NoResult.out

Invoke(kind) ==
  /\ op = "ready"
  /\ vdr.k = kind
  /\ op' = kind
  /\ res' = Exec(vdr, input, path)
  /\ UNCHANGED <<vdr, input, path, formatted, again>>

ComposeValidators == {ComposeRightV(vs) : vs \in SeqsUpTo(Candidates, MaxSteps)}

InitCompose == Ready(ComposeValidators, ComposeInputs, Paths)

CallComposeRight == Invoke("composeRight")

NextCompose == CallComposeRight

SpecCompose == InitCompose /\ [][NextCompose]_vars

InitObject == Ready(ObjectValidators, ObjectInputs, ObjectPaths)

CallObject == Invoke("object")

NextObject == CallObject

SpecObject == InitObject /\ [][NextObject]_vars

InitArray == Ready(ArrayValidators, ArrayInputs, Paths)

CallArray == Invoke("array")

NextArray == CallArray

SpecArray == InitArray /\ [][NextArray]_vars

\* object({ a: array(object({ b: string() })) })
PathSchema == ObjectV(Literal(<<KeyA>>, <<ArrayV(InnerObject)>>), Undefined)

PathValidators ==
  {PathSchema, ArrayV(InnerObject), ArrayV(PathSchema),
   ObjectV(Literal(<<KeyA, KeyB>>, <<ArrayV(StringV), ArrayV(NumberV)>>), Bool(FALSE))}

PathInputs ==
  Nested
    \cup {Arr(xs) : xs \in SeqsUpTo({InnerGood, InnerBad}, MaxLen)}
    \cup {Arr(<<o>>) : o \in Nested}
    \cup {Literal(<<KeyA, KeyB>>, <<Arr(xs), Arr(ys)>>) :
            xs, ys \in SeqsUpTo({AB, N7}, MaxLen - 1)}

InitPath == Ready(PathValidators, PathInputs, ObjectPaths)

\* formatErrors(result.error), once a validation failed
CallFormatErrors ==
  /\ op \in {"object", "array"}
  /\ isErr(res.out)
  /\ op' = "formatErrors"
  /\ formatted' = formatErrors(res.out.error)
  /\ UNCHANGED <<vdr, input, path, res, again>>

NextPath == CallObject \/ CallArray \/ CallFormatErrors

\* path segments: a name, indices of one and two digits, a name that ends
\* in a digit, the empty name and "__proto__"
Segments == {KeyA, <<"0">>, Key1, <<"1", "2">>, <<"a", "1">>, <<>>, <<"__proto__">>}

\* formatErrors(errors) on no error, one error, or two errors with different
\* messages, at any paths of up to MaxSegs segments
InitFormat ==
  /\ op = "ready"
  /\ vdr = [k |-> "formatErrors"]
  /\ \E p, q \in SeqsUpTo(Segments, MaxSegs) :
       input \in {<<>>,
                  <<ValidationError(p, <<"Name is required">>)>>,
                  <<ValidationError(p, <<"Name is required">>),
                    ValidationError(q, <<"Invalid zip code">>)>>}
  /\ path = <<>>
  /\ res = NoResult
  /\ formatted = EmptyObj
  /\ again = NoResult.out

\* formatErrors(errors) of a given list of errors
CallFormatErrorsOf ==
  /\ op = "ready"
  /\ vdr.k = "formatErrors"
  /\ op' = "formatErrors"
  /\ formatted' = formatErrors(input)
  /\ UNCHANGED <<vdr, input, path, res, again>>

NextFormat == CallFormatErrorsOf

SpecFormat == InitFormat /\ [][NextFormat]_vars

SpecPath == InitPath /\ [][NextPath]_vars

UnionValidators ==
  {UnionV(vs, c, pre) :
     vs \in SeqsUpTo(Candidates, MaxCands),
     c \in {Undefined, Bool(TRUE), Bool(FALSE)},
     pre \in {Undefined, Str(<<>>), Str(<<"Union validation failed">>)}}

UnionInputs == Scalars \cup {InnerGood, InnerBad, Arr(<<AB>>)}

InitUnion == Ready(UnionValidators, UnionInputs, Paths)

CallUnion == Invoke("union")

NextUnion == CallUnion

SpecUnion == InitUnion /\ [][NextUnion]_vars

KeyType == <<"type">>

\* object({ type: string(), a: string() }, options)
TextSchema(strict) == ObjectV(Literal(<<KeyType, KeyA>>, <<StringV, StringV>>), strict)

\* object({ type: string(), b: parseNumber() }, options)
ImageSchema(strict) ==
  ObjectV(Literal(<<KeyType, KeyB>>, <<StringV, ParseNumberV>>), strict)

\* discriminatedUnion("type", map, fallbackMessage) over the maps
\* { text: textSchema, image: imageSchema }, the same with the keys the
\* other way round, a map of one leaf, and the empty map
DiscriminatedUnions ==
  LET maps ==
        {Literal(<<<<"text">>, <<"image">>>>, <<TextSchema(st), ImageSchema(st)>>) :
           st \in {Undefined, Bool(FALSE)}}
          \cup {Literal(<<<<"image">>, <<"text">>>>,
                        <<ImageSchema(Undefined), TextSchema(Undefined)>>),
                Literal(<<<<"text">>>>, <<StringV>>),
                EmptyObj}
  IN {DiscriminatedUnionV(KeyType, m, fb) :
        m \in maps, fb \in {Undefined, Str(<<"Unknown message type">>)}}

\* records with and without a discriminant, registered or not, and with the
\* fields of the variants
Messages ==
  {Present(<<KeyA, KeyType, KeyB>>, <<a, d, b>>) :
     a \in {Absent, AB},
     d \in {Absent, N7, Null, Str(<<>>), Str(<<"text">>), Str(<<"image">>),
            Str(<<"video">>), Str(<<"constructor">>), Str(<<"toString">>)},
     b \in {Absent, S12, AB}}

InitDiscriminated ==
  Ready(DiscriminatedUnions,
        Scalars \cup Messages \cup {Arr(xs) : xs \in SeqsUpTo({AB}, MaxLen)},
        Paths)

CallDiscriminatedUnion == Invoke("discriminatedUnion")

NextDiscriminated == CallDiscriminatedUnion

SpecDiscriminated == InitDiscriminated /\ [][NextDiscriminated]_vars

\* withCommonFields(common, specific): common is object({ x: number() }) as
\* documented or non-strict, object({ b: string() }) or a leaf; specific is
\* the discriminated union of the text and image schemas as documented or
\* non-strict, object({ b: parseNumber() }) or a leaf.  The discriminants
\* are registered ones, "video" or missing.
InitCommon ==
  LET st == {Undefined, Bool(FALSE)}
      maps(o) == Literal(<<<<"text">>, <<"image">>>>, <<TextSchema(o), ImageSchema(o)>>)
      commons == {ObjectV(Literal(<<KeyX>>, <<NumberV>>), o) : o \in st}
                   \cup {ObjectV(Literal(<<KeyB>>, <<StringV>>), Bool(FALSE)), StringV}
      specifics == {DiscriminatedUnionV(KeyType, maps(o), Undefined) : o \in st}
                     \cup {ObjectV(Literal(<<KeyB>>, <<ParseNumberV>>), Bool(FALSE)),
                           StringV, NumberV}
      records == {Present(<<KeyX, KeyType, KeyA, KeyB>>, <<x, d, a, b>>) :
                    x \in {Absent, N7, AB},
                    d \in {Absent, Str(<<"text">>), Str(<<"image">>), Str(<<"video">>)},
                    a \in {Absent, AB},
                    b \in {Absent, S12, AB}}
  IN Ready({WithCommonFieldsV(c, s) : c \in commons, s \in specifics},
           Scalars \cup records \cup {Arr(<<>>), Arr(<<AB>>)},
           ObjectPaths)

CallWithCommonFields == Invoke("withCommonFields")

NextCommon == CallWithCommonFields

SpecCommon == InitCommon /\ [][NextCommon]_vars

\* required(v), required(v, message) and optional(v) over the leaves, an
\* object schema and an array, applied to scalars, records and arrays
InitAdapter ==
  LET Wrapped == Candidates \cup {ArrayV(NumberV)}
  IN Ready({RequiredV(v, m) : v \in Wrapped,
                              m \in {Undefined, Str(<<"Name is required">>)}}
             \cup {OptionalV(v) : v \in Wrapped},
           Scalars \cup {InnerGood, InnerBad}
             \cup {Arr(xs) : xs \in SeqsUpTo({N7, AB}, MaxLen)},
           Paths)

CallRequired == Invoke("required")

CallOptional == Invoke("optional")

NextAdapter == CallRequired \/ CallOptional

SpecAdapter == InitAdapter /\ [][NextAdapter]_vars

\* validators over the leaves and over the doubling validator (behind
\* number(), as it is typed), applied to scalars, arrays and records
InitAgain ==
  LET Doubled == ComposeRightV(<<NumberV, DoubleV>>)
      fields == {StringV, NumberV, ParseNumberV, Doubled}
      items == fields \cup {ArrayV(ParseNumberV),
                            ComposeRightV(<<ParseNumberV, NumberV>>),
                            ComposeRightV(<<StringV, ParseNumberV>>)}
  IN Ready({ComposeRightV(vs) : vs \in SeqsUpTo({StringV, NumberV, ParseNumberV}, 2)}
             \cup {Doubled}
             \cup {ArrayV(i) : i \in items}
             \cup {ObjectV(Literal(<<KeyA, KeyB>>, <<f, g>>), st) :
                     f \in fields,
                     g \in {OptionalV(ParseNumberV), RequiredV(StringV, Undefined)},
                     st \in {Undefined, Bool(FALSE)}},
           Scalars
             \cup {Arr(xs) : xs \in SeqsUpTo({N7, S12, AB, Arr(<<S12>>)}, MaxLen)}
             \cup {Present(<<KeyA, KeyB, KeyX>>, <<a, b, x>>) :
                     a \in {N7, S12, AB}, b \in {Absent, S12, AB}, x \in {Absent, N7}},
           ObjectPaths)

\* the validator applied again, to the value it returned, at the same path
CallAgain ==
  /\ op \in {"composeRight", "object", "array"}
  /\ isOk(res.out)
  /\ op' = "again"
  /\ again' = Run(vdr, res.out.value, path)
  /\ UNCHANGED <<vdr, input, path, res, formatted>>

NextAgain == CallComposeRight \/ CallObject \/ CallArray \/ CallAgain

SpecAgain == InitAgain /\ [][NextAgain]_vars

\* every combinator of the core, built and applied as above
InitCore ==
  \/ InitCompose
  \/ InitObject
  \/ InitArray
  \/ InitUnion
  \/ InitAdapter
  \/ InitDiscriminated
  \/ InitCommon

NextCore ==
  \/ CallComposeRight
  \/ CallObject
  \/ CallArray
  \/ CallUnion
  \/ CallRequired
  \/ CallOptional
  \/ CallDiscriminatedUnion
  \/ CallWithCommonFields

SpecCore == InitCore /\ [][NextCore]_vars

(***************************************************************************)
(* composeRight                                                            *)
(***************************************************************************)
RECURSIVE Threaded(_, _, _, _)
\* what step i receives when every step before it succeeded
Threaded(vs, i, x, p) ==
  IF i = 1 THEN x ELSE Run(vs[i - 1], Threaded(vs, i - 1, x, p), p).value

StepOutcome(vs, i, x, p) == Run(vs[i], Threaded(vs, i, x, p), p)

FirstFailing(vs, i, x, p) ==
  /\ i \in 1..Len(vs)
  /\ \A j \in 1..(i - 1) : isOk(StepOutcome(vs, j, x, p))
  /\ isErr(StepOutcome(vs, i, x, p))

\* C1: when step i is the first validator of composeRight that fails, the
\* result is exactly the failure step i returned, and no validator after
\* step i is invoked.
C1_FirstFailure ==
  op = "composeRight" =>
    \A i \in 1..Len(vdr.validators) :
      FirstFailing(vdr.validators, i, input, path) =>
        /\ res.out = StepOutcome(vdr.validators, i, input, path)
        /\ \A c \in 1..Len(res.log) : res.log[c].i <= i

\* a chain of three whose middle step fails after the first succeeded
C1_Witness ==
  /\ op = "composeRight"
  /\ Len(vdr.validators) = 3
  /\ FirstFailing(vdr.validators, 2, input, path)
  /\ Len(res.log) = 2
  /\ isErr(res.out)

(***************************************************************************)
(* object                                                                  *)
(***************************************************************************)
\* how often e occurs in the list s
Count(e, s) == Cardinality({j \in 1..Len(s) : s[j] = e})

\* what the validator of schema field key returns on the input's value there
FieldOutcome(key) ==
  Run(vdr.schema.get[key], GetProp(input, key), Append(path, key))

FailingFields == SelectSeq(OwnKeys(vdr.schema), LAMBDA key : isErr(FieldOutcome(key)))

FailingFieldErrors ==
  Flatten([j \in 1..Len(FailingFields) |-> FieldOutcome(FailingFields[j]).error])

InputExtraKeys == {key \in DOMAIN input.get : key \notin DOMAIN vdr.schema.get}

UnexpectedFieldError(key) ==
  [path |-> Append(path, key), message |-> <<"Unexpected field: '">> \o key \o <<"'">>]

\* C2: object(schema) is exhaustive: on an input record with k failing
\* schema fields the result is a failure that holds the errors of all k
\* fields, and every schema validator is invoked exactly once, whatever
\* earlier fields or extra keys produced.
C2_ObjectExhaustive ==
  (op = "object" /\ input.t = "object") =>
    /\ Len(FailingFields) > 0 => isErr(res.out)
    /\ \A j \in 1..Len(FailingFieldErrors) :
         Count(FailingFieldErrors[j], res.out.error)
           >= Count(FailingFieldErrors[j], FailingFieldErrors)
    /\ \A key \in DOMAIN vdr.schema.get :
         Cardinality({c \in 1..Len(res.log) : res.log[c].i = key}) = 1
    /\ Len(res.log) = Cardinality(DOMAIN vdr.schema.get)

\* two fields fail, one of them with two errors, after an extra key was
\* already reported
C2_Witness ==
  /\ op = "object"
  /\ input.t = "object"
  /\ Len(FailingFields) = 2
  /\ Len(FailingFieldErrors) = 3
  /\ InputExtraKeys # {}
  /\ vdr.strict = Undefined
  /\ Len(res.out.error) > 3

\* C4: in strict mode (also when no options are given) every key of the
\* input that the schema does not declare yields exactly one error
\* "Unexpected field: '<key>'" at path + [key], and the result is a
\* failure, whether or not the declared fields are valid.
C4_StrictExtraKeys ==
  (op = "object" /\ input.t = "object" /\ vdr.strict # Bool(FALSE)) =>
    \A key \in InputExtraKeys :
      /\ Count(UnexpectedFieldError(key), res.out.error) = 1
      /\ isErr(res.out)

\* no options given, every declared field valid, one extra key: the only
\* error is the extra key's
C4_Witness ==
  /\ op = "object"
  /\ input.t = "object"
  /\ vdr.strict = Undefined
  /\ DOMAIN vdr.schema.get # {}
  /\ Len(FailingFields) = 0
  /\ Cardinality(InputExtraKeys) = 1
  /\ isErr(res.out)
  /\ Len(res.out.error) = 1

ExpectedAnObject == Leaf(err(<<[path |-> path, message |-> <<"Expected an object">>]>>))

\* C6: object(schema) returns the one error "Expected an object" at path,
\* and invokes no field validator, whenever the value is null, undefined,
\* a boolean, a number, a string or a sequence.
C6_ExpectedAnObject ==
  (op = "object" /\ input.t # "object") => res = ExpectedAnObject

\* C6, without the sequences: the values that are null or whose typeof is
\* not "object" are rejected with that one error.
C6_ExceptSequences ==
  (op = "object" /\ input.t \notin {"object", "array"}) => res = ExpectedAnObject

(***************************************************************************)
(* array                                                                   *)
(***************************************************************************)
\* what the item validator returns on element i (0-based) of the input
ItemOutcome(i) ==
  Run(vdr.itemValidator, input.items[i + 1], Append(path, IndexToString(i)))

ItemOutcomes == [j \in 1..Len(input.items) |-> ItemOutcome(j - 1)]

\* C8: array(itemValidator) is exhaustive: it invokes itemValidator on every
\* element i with path + [String(i)], and if any element fails the result
\* is the failure whose errors are those of the failing elements,
\* concatenated in increasing index order.
C8_ArrayExhaustive ==
  (op = "array" /\ input.t = "array") =>
    /\ Len(res.log) = Len(input.items)
    /\ \A i \in 0..(Len(input.items) - 1) :
         res.log[i + 1] =
           [i |-> i, x |-> input.items[i + 1], p |-> Append(path, IndexToString(i))]
    /\ (\E j \in 1..Len(input.items) : isErr(ItemOutcomes[j])) =>
         res.out = err(Flatten([j \in 1..Len(input.items) |-> ItemOutcomes[j].error]))

\* elements 0 and 2 fail, one of them with two errors, element 1 succeeds
C8_Witness ==
  /\ op = "array"
  /\ input.t = "array"
  /\ Len(input.items) = 3
  /\ isErr(ItemOutcome(0))
  /\ isOk(ItemOutcome(1))
  /\ Len(ItemOutcome(2).error) = 2
  /\ Len(res.out.error) = 3
  /\ path # <<>>

\* C9: array(itemValidator) succeeds when every element succeeds, and its
\* output has the length of the input and holds at i the success value of
\* itemValidator on element i; the empty sequence yields the empty sequence.
C9_ArraySuccess ==
  (op = "array" /\ input.t = "array"
     /\ \A j \in 1..Len(input.items) : isOk(ItemOutcomes[j])) =>
    /\ res.out = ok(Arr([j \in 1..Len(input.items) |-> ItemOutcomes[j].value]))
    /\ Len(res.out.value.items) = Len(input.items)
    /\ input.items = <<>> => res.out = ok(Arr(<<>>))

\* three elements, all accepted, one of them transformed
C9_Witness ==
  /\ op = "array"
  /\ input.t = "array"
  /\ Len(input.items) = 3
  /\ isOk(res.out)
  /\ res.out.value.items[1] # res.out.value.items[2]
  /\ res.out.value.items # input.items

\* C10: array(itemValidator) returns the one error "Expected an array" at
\* path, and never invokes itemValidator, whenever the value is not a
\* sequence.
C10_ExpectedAnArray ==
  (op = "array" /\ input.t # "array") =>
    res = Leaf(err(<<[path |-> path, message |-> <<"Expected an array">>]>>))

\* a record handed to array(...) below the root
C10_Witness ==
  /\ op = "array"
  /\ input.t = "object"
  /\ path # <<>>
  /\ Len(res.out.error) = 1
  /\ res.log = <<>>

(***************************************************************************)
(* paths                                                                   *)
(***************************************************************************)
\* the input holds, at key "a", index 2, key "b", a value that is no string
LeafFailsAtA2B ==
  /\ input.t = "object"
  /\ KeyA \in DOMAIN input.get
  /\ input.get[KeyA].t = "array"
  /\ Len(input.get[KeyA].items) >= 3
  /\ input.get[KeyA].items[3].t = "object"
  /\ KeyB \in DOMAIN input.get[KeyA].items[3].get
  /\ input.get[KeyA].items[3].get[KeyB].t # "string"

A2B == <<"a", "[", "2", "]", ".", "b">>

\* C7: paths are built by nesting only: object hands parentPath + [key] to
\* the validator of field key, array hands parentPath + [String(i)] to the
\* validator of element i, and no error carries a segment of a sibling; a
\* path-reporting leaf failing at key "a", index 2, key "b" yields an error
\* at [..., "a", "2", "b"], which formatErrors renders as "a[2].b".
C7_PathNesting ==
  op # "ready" =>
    /\ (vdr.k = "object" /\ input.t \in {"object", "array"}) =>
         \A c \in 1..Len(res.log) : res.log[c].p = path \o <<res.log[c].i>>
    /\ (vdr.k = "array" /\ input.t = "array") =>
         \A c \in 1..Len(res.log) :
           /\ res.log[c].i = c - 1
           /\ res.log[c].p = path \o <<<<Digits[c]>>>>
    /\ (vdr = PathSchema /\ input \in Nested) =>
         \A j \in 1..Len(res.out.error) :
           \E i \in 1..Len(input.get[KeyA].items) :
             \E key \in DOMAIN input.get[KeyA].items[i].get :
               res.out.error[j].path = path \o <<KeyA, <<Digits[i]>>, key>>
    /\ (vdr = PathSchema /\ LeafFailsAtA2B) =>
         /\ Count([path |-> path \o <<KeyA, <<"2">>, KeyB>>,
                   message |-> <<"Must be a string">>], res.out.error) = 1
         /\ (op = "formatErrors" /\ path = <<>>) =>
              /\ A2B \in DOMAIN formatted.get
              /\ formatted.get[A2B] = Str(<<"Must be a string">>)
         /\ (op = "formatErrors" /\ path = <<<<"p">>>>) =>
              /\ (<<"p", ".">> \o A2B) \in DOMAIN formatted.get
              /\ formatted.get[<<"p", ".">> \o A2B] = Str(<<"Must be a string">>)

\* the leaf at a[2].b fails while its sibling a[0] is valid, and the errors
\* were formatted
C7_Witness ==
  /\ op = "formatErrors"
  /\ vdr = PathSchema
  /\ path = <<>>
  /\ LeafFailsAtA2B
  /\ input.get[KeyA].items[1] = InnerGood
  /\ A2B \in DOMAIN formatted.get

(***************************************************************************)
(* union                                                                   *)
(***************************************************************************)
\* what candidate i returns on the input
CandidateOutcome(i) == Run(vdr.validators[i], input, path)

FirstSucceeding(i) ==
  /\ i \in 1..Len(vdr.validators)
  /\ isOk(CandidateOutcome(i))
  /\ \A j \in 1..(i - 1) : isErr(CandidateOutcome(j))

\* C3: under every configuration of union, if at least one candidate
\* succeeds then union returns the success of the first succeeding
\* candidate.
C3_FirstSuccess ==
  op = "union" =>
    \A i \in 1..Len(vdr.validators) :
      FirstSucceeding(i) => res.out = CandidateOutcome(i)

\* C3, when every error is collected (collectAllErrors true or not given):
\* the first succeeding candidate's success is returned.
C3_FirstSuccessCollectingAll ==
  (op = "union" /\ vdr.collectAllErrors # Bool(FALSE)) =>
    \A i \in 1..Len(vdr.validators) :
      FirstSucceeding(i) => res.out = CandidateOutcome(i)

\* C3, with collectAllErrors false: only a success of the first candidate
\* is returned; once the first candidate fails no other is tried.
C3_FailFastTriesOne ==
  (op = "union" /\ vdr.collectAllErrors = Bool(FALSE) /\ Len(vdr.validators) > 0) =>
    /\ Len(res.log) = 1
    /\ isOk(res.out) <=> isOk(CandidateOutcome(1))

AllCandidatesFail ==
  /\ vdr.validators # <<>>
  /\ \A i \in 1..Len(vdr.validators) : isErr(CandidateOutcome(i))

RECURSIVE CandidateErrors(_)
\* the error lists of candidates 1..n, one after the other
CandidateErrors(n) ==
  IF n = 0 THEN <<>> ELSE CandidateErrors(n - 1) \o CandidateOutcome(n).error

\* the errors a union of failing candidates reports, before any prefix
ReportedErrors ==
  IF vdr.collectAllErrors = Bool(FALSE)
  THEN CandidateOutcome(1).error
  ELSE CandidateErrors(Len(vdr.validators))

WithPrefix(errors, pre) ==
  [j \in 1..Len(errors) |->
     [path |-> errors[j].path, message |-> pre \o <<": ">> \o errors[j].message]]

\* C13 as stated: when every candidate fails, union fails with every
\* candidate's errors in candidate order (collectAllErrors true or not
\* given) or with the first candidate's errors (collectAllErrors false);
\* paths are kept and each message becomes "<errorPrefix>: <message>" when
\* an errorPrefix is given in the options, whatever string it is.
C13_AllFail ==
  (op = "union" /\ AllCandidatesFail) =>
    res.out = err(IF vdr.errorPrefix = Undefined
                  THEN ReportedErrors
                  ELSE WithPrefix(ReportedErrors, vdr.errorPrefix.s))

\* C13, amended: as C13, but the messages are prefixed only when the
\* errorPrefix is a non-empty string; with the empty string, as with no
\* errorPrefix, they are unchanged.
C13_AllFailNonEmptyPrefix ==
  (op = "union" /\ AllCandidatesFail) =>
    res.out = err(IF vdr.errorPrefix \in {Undefined, Str(<<>>)}
                  THEN ReportedErrors
                  ELSE WithPrefix(ReportedErrors, vdr.errorPrefix.s))

\* two failing candidates, the second reporting two errors below the path,
\* all three reported with the prefix
C13_Witness ==
  /\ op = "union"
  /\ AllCandidatesFail
  /\ vdr.collectAllErrors # Bool(FALSE)
  /\ vdr.errorPrefix = Str(<<"Union validation failed">>)
  /\ Len(vdr.validators) = 2
  /\ Len(CandidateOutcome(2).error) = 2
  /\ Len(res.out.error) = 3
  /\ path # <<>>

\* C14: union([]) fails on every input, under every setting of the
\* options, with exactly one error at the current path whose message is
\* "No validators provided to union".
C14_NoValidators ==
  (op = "union" /\ vdr.validators = <<>>) =>
    /\ res.out = err(<<[path |-> path,
                        message |-> <<"No validators provided to union">>]>>)
    /\ res.log = <<>>

\* an empty union with a prefix and fail-fast configured, below the root
C14_Witness ==
  /\ op = "union"
  /\ vdr.validators = <<>>
  /\ vdr.errorPrefix = Str(<<"Union validation failed">>)
  /\ vdr.collectAllErrors = Bool(FALSE)
  /\ path # <<>>
  /\ isErr(res.out)

(***************************************************************************)
(* required, optional                                                      *)
(***************************************************************************)
IsAbsent(x) == x.t \in {"null", "undefined"}

\* what the wrapped validator returns on the input at the same path
WrappedOutcome == Run(vdr.validator, input, path)

\* C11: required(validator, message) fails on null and undefined with the
\* one error {path, message} (message "Field is required" unless given)
\* without invoking validator; on any other value the result is exactly
\* validator(value, path), with no path segment added.
C11_Required ==
  op = "required" =>
    IF IsAbsent(input)
    THEN /\ res.out = err(<<[path |-> path,
                             message |-> IF vdr.message = Undefined
                                         THEN <<"Field is required">>
                                         ELSE vdr.message.s]>>)
         /\ res.log = <<>>
    ELSE /\ res.out = WrappedOutcome
         /\ res.log = <<[i |-> 1, x |-> input, p |-> path]>>

\* null below the root, rejected with the default message
C11_Witness ==
  /\ op = "required"
  /\ input = Null
  /\ path # <<>>
  /\ vdr.message = Undefined
  /\ res.out.error = <<[path |-> path, message |-> <<"Field is required">>]>>

\* C12: optional(validator) succeeds on null and on undefined with the
\* value undefined, without invoking validator; on any other value the
\* result is exactly validator(value, path), with no path segment added.
C12_Optional ==
  op = "optional" =>
    IF IsAbsent(input)
    THEN /\ res.out = ok(Undefined)
         /\ res.log = <<>>
    ELSE /\ res.out = WrappedOutcome
         /\ res.log = <<[i |-> 1, x |-> input, p |-> path]>>

\* null is accepted as undefined
C12_Witness ==
  /\ op = "optional"
  /\ input = Null
  /\ isOk(res.out)
  /\ res.out.value = Undefined

(***************************************************************************)
(* discriminatedUnion                                                      *)
(***************************************************************************)
IsRecord(x) == x.t = "object"

\* the input is a record whose discriminant field holds a string
HasDiscriminant ==
  /\ IsRecord(input)
  /\ vdr.discriminantField \in DOMAIN input.get
  /\ input.get[vdr.discriminantField].t = "string"

Discriminant == input.get[vdr.discriminantField].s

Registered(d) == d \in DOMAIN vdr.validatorMap.get

\* the one error a discriminated union reports at its discriminant field
AtDiscriminant(message) ==
  err(<<[path |-> path \o <<vdr.discriminantField>>, message |-> message]>>)

\* C15: when the input is a record whose discriminant field holds a string
\* registered in the map, the result is that of the registered validator
\* on the entire input at the unmodified path, and it is the only variant
\* invoked.
C15_Delegates ==
  (op = "discriminatedUnion" /\ HasDiscriminant /\ Registered(Discriminant)) =>
    /\ res.out = Run(vdr.validatorMap.get[Discriminant], input, path)
    /\ Len(res.log) = 1
    /\ vdr.validatorMap.keys[res.log[1].i] = Discriminant
    /\ res.log[1].x = input
    /\ res.log[1].p = path

\* the second variant of the map is selected and accepts the whole input
C15_Witness ==
  /\ op = "discriminatedUnion"
  /\ HasDiscriminant
  /\ Len(vdr.validatorMap.keys) = 2
  /\ Discriminant = vdr.validatorMap.keys[2]
  /\ path # <<>>
  /\ res.out.ok
  /\ res.out.value.t = "object"

\* C16: for every string discriminant no validator is registered for, the
\* result is the one error at path + [field] with the message
\* "<fallbackMessage>: '<d>'" (default fallback "Invalid discriminant value
\* for '<field>'"), and no variant is invoked.
C16_Unregistered ==
  (op = "discriminatedUnion" /\ HasDiscriminant /\ ~Registered(Discriminant)) =>
    /\ res.out = AtDiscriminant(
                   (IF vdr.fallbackMessage = Undefined
                    THEN <<"Invalid discriminant value for '">>
                           \o vdr.discriminantField \o <<"'">>
                    ELSE vdr.fallbackMessage.s)
                   \o <<": '">> \o Discriminant \o <<"'">>)
    /\ res.log = <<>>

\* C16, for discriminants that are not names of members inherited from
\* Object.prototype: the fallback error is reported as claimed.
C16_UnregisteredNotInherited ==
  (op = "discriminatedUnion" /\ HasDiscriminant /\ ~Registered(Discriminant)
     /\ Discriminant \notin ProtoKeys) =>
    /\ res.out = AtDiscriminant(
                   (IF vdr.fallbackMessage = Undefined
                    THEN <<"Invalid discriminant value for '">>
                           \o vdr.discriminantField \o <<"'">>
                    ELSE vdr.fallbackMessage.s)
                   \o <<": '">> \o Discriminant \o <<"'">>)
    /\ res.log = <<>>

\* C16, for an unregistered discriminant that names an inherited member:
\* what comes back is no Result at all
C16_InheritedIsNoResult ==
  (op = "discriminatedUnion" /\ HasDiscriminant /\ ~Registered(Discriminant)
     /\ Discriminant \in ProtoKeys) =>
    /\ "ok" \notin DOMAIN res.out
    /\ res.log = <<>>

\* C17: a value that is not a record (null, a primitive or a sequence)
\* yields the one error "Expected an object" at path; a record whose
\* discriminant field is absent or no string yields the one error "Missing
\* or invalid discriminant field '<field>'" at path + [field]; no variant
\* is invoked in either case.
C17_Rejects ==
  (op = "discriminatedUnion" /\ ~HasDiscriminant) =>
    /\ res.out = IF IsRecord(input)
                 THEN AtDiscriminant(<<"Missing or invalid discriminant field '">>
                                       \o vdr.discriminantField \o <<"'">>)
                 ELSE err(<<[path |-> path, message |-> <<"Expected an object">>]>>)
    /\ res.log = <<>>

\* C17, sequences apart: as claimed for null, primitives and records.
C17_RejectsExceptSequences ==
  (op = "discriminatedUnion" /\ ~HasDiscriminant /\ input.t # "array") =>
    /\ res.out = IF IsRecord(input)
                 THEN AtDiscriminant(<<"Missing or invalid discriminant field '">>
                                       \o vdr.discriminantField \o <<"'">>)
                 ELSE err(<<[path |-> path, message |-> <<"Expected an object">>]>>)
    /\ res.log = <<>>

\* C17, for sequences: the error is the one of a missing discriminant
C17_SequencesMissDiscriminant ==
  (op = "discriminatedUnion" /\ input.t = "array") =>
    res.out = AtDiscriminant(<<"Missing or invalid discriminant field '">>
                               \o vdr.discriminantField \o <<"'">>)

(***************************************************************************)
(* withCommonFields                                                        *)
(***************************************************************************)
CommonOutcome == Run(vdr.commonSchema, input, path)

SpecificOutcome == Run(vdr.specificSchema, input, path)

\* the record r holds the keys of c and of s, with the value of s where
\* both have the key
MergedOf(r, c, s) ==
  /\ r.t = "object"
  /\ DOMAIN r.get = DOMAIN c.get \cup DOMAIN s.get
  /\ {r.keys[j] : j \in 1..Len(r.keys)} = DOMAIN r.get
  /\ Len(r.keys) = Cardinality(DOMAIN r.get)
  /\ \A key \in DOMAIN r.get :
       r.get[key] = IF key \in DOMAIN s.get THEN s.get[key] ELSE c.get[key]

\* C18: withCommonFields(common, specific)(value, path) returns the failure
\* of common(value, path) unchanged without invoking specific; else the
\* failure of specific(value, path) unchanged; else success with the union
\* of the two output records, the value of specific winning on a key both
\* hold.
C18_CommonThenSpecific ==
  op = "withCommonFields" =>
    IF ~CommonOutcome.ok
    THEN /\ res.out = CommonOutcome
         /\ res.log = <<[i |-> 1, x |-> input, p |-> path]>>
    ELSE /\ res.log = <<[i |-> 1, x |-> input, p |-> path],
                        [i |-> 2, x |-> input, p |-> path]>>
         /\ IF ~SpecificOutcome.ok
            THEN res.out = SpecificOutcome
            ELSE /\ res.out.ok
                 /\ (IsRecord(CommonOutcome.value) /\ IsRecord(SpecificOutcome.value))
                      => MergedOf(res.out.value, CommonOutcome.value,
                                  SpecificOutcome.value)

\* both succeed and hold a key with different values: the specific one wins
C18_Witness ==
  /\ op = "withCommonFields"
  /\ CommonOutcome.ok
  /\ SpecificOutcome.ok
  /\ IsRecord(CommonOutcome.value)
  /\ IsRecord(SpecificOutcome.value)
  /\ \E key \in DOMAIN CommonOutcome.value.get \cap DOMAIN SpecificOutcome.value.get :
       /\ CommonOutcome.value.get[key] # SpecificOutcome.value.get[key]
       /\ res.out.value.get[key] = SpecificOutcome.value.get[key]

\* object(fields) with default options
IsDefaultObject(v) == v.k = "object" /\ v.strict = Undefined

\* every key of the schema is in the record with a value its validator accepts
HoldsValid(record, schema) ==
  \A key \in DOMAIN schema.get :
    /\ key \in DOMAIN record.get
    /\ Run(schema.get[key], record.get[key], path \o <<key>>).ok

\* the variant schema the discriminant of the input selects
Selected ==
  vdr.specificSchema.validatorMap.get[input.get[vdr.specificSchema.discriminantField].s]

\* withCommonFields used as documented, object(common keys) with a
\* discriminated union of object(variant keys), on a record that holds
\* valid values for the common keys and the keys of the selected variant,
\* and no other key
DocumentedUse(isSchema(_)) ==
  /\ op = "withCommonFields"
  /\ isSchema(vdr.commonSchema)
  /\ vdr.specificSchema.k = "discriminatedUnion"
  /\ \A d \in DOMAIN vdr.specificSchema.validatorMap.get :
       isSchema(vdr.specificSchema.validatorMap.get[d])
  /\ IsRecord(input)
  /\ vdr.specificSchema.discriminantField \in DOMAIN input.get
  /\ input.get[vdr.specificSchema.discriminantField].t = "string"
  /\ input.get[vdr.specificSchema.discriminantField].s
       \in DOMAIN vdr.specificSchema.validatorMap.get
  /\ HoldsValid(input, vdr.commonSchema.schema)
  /\ HoldsValid(input, Selected.schema)
  /\ DOMAIN input.get = DOMAIN vdr.commonSchema.schema.get \cup DOMAIN Selected.schema.get

\* the validated value of every key of the input
ValidatedFields ==
  [key \in DOMAIN input.get |->
     Run(IF key \in DOMAIN Selected.schema.get
         THEN Selected.schema.get[key]
         ELSE vdr.commonSchema.schema.get[key],
         input.get[key], path \o <<key>>).value]

\* C19: withCommonFields used as its documentation shows, with schemas
\* built with default options, returns success with the merged record for
\* an input that holds valid values for every common key and every key of
\* the selected variant.
C19_DocumentedUse ==
  DocumentedUse(IsDefaultObject) =>
    /\ res.out.ok
    /\ res.out.value.t = "object"
    /\ res.out.value.get = ValidatedFields

\* C19, as the code has it: the documented use fails on every such input,
\* with "Unexpected field" errors of the common schema for the keys of the
\* variant.
C19_DocumentedUseFails ==
  DocumentedUse(IsDefaultObject) =>
    /\ ~res.out.ok
    /\ res.out = CommonOutcome
    /\ \A j \in 1..Len(res.out.error) :
         /\ res.out.error[j].message[1] = "Unexpected field: '"
         /\ res.out.error[j].path[Len(path) + 1] \in DOMAIN Selected.schema.get

\* C19, with every schema built with strict: false: the merged record is
\* returned.
C19_NonStrictUse ==
  DocumentedUse(LAMBDA v : v.k = "object" /\ v.strict = Bool(FALSE)) =>
    /\ res.out.ok
    /\ res.out.value.t = "object"
    /\ res.out.value.get = ValidatedFields

\* the documented use on a valid input, with default and with non-strict
\* schemas
C19_DocumentedUseReached == DocumentedUse(IsDefaultObject) /\ path # <<>>

C19_NonStrictUseReached ==
  /\ DocumentedUse(LAMBDA v : v.k = "object" /\ v.strict = Bool(FALSE))
  /\ Cardinality(DOMAIN res.out.value.get) = 3

(***************************************************************************)
(* formatErrors                                                            *)
(***************************************************************************)
\* a segment made only of decimal digits
OnlyDigits(segment) ==
  /\ segment # <<>>
  /\ \A j \in 1..Len(segment) :
       segment[j] \in {"0", "1", "2", "3", "4", "5", "6", "7", "8", "9"}

RECURSIVE Rendered(_, _)
\* the first n segments of the path p, rendered left to right
Rendered(p, n) ==
  IF n = 0 THEN <<>>
  ELSE IF OnlyDigits(p[n]) THEN Rendered(p, n - 1) \o <<"[">> \o p[n] \o <<"]">>
  ELSE IF n = 1 THEN p[n]
  ELSE Rendered(p, n - 1) \o <<".">> \o p[n]

RenderedPath(p) == Rendered(p, Len(p))

\* no later error of the list renders to the path of the j-th
LastAtItsPath(j) ==
  \A l \in (j + 1)..Len(input) : RenderedPath(input[l].path) # RenderedPath(input[j].path)

\* C20: formatErrors renders each path left to right, a segment of decimal
\* digits as "[segment]" after the prefix rendered so far, any other
\* segment as ".segment", without the dot at index 0, the empty path as the
\* empty string; the output maps each rendered path to the message of its
\* error.
C20_Rendering ==
  op = "formatErrors" =>
    /\ formatted.t = "object"
    /\ \A j \in 1..Len(input) :
         /\ RenderedPath(input[j].path) \in DOMAIN formatted.get
         /\ LastAtItsPath(j) =>
              formatted.get[RenderedPath(input[j].path)] = Str(input[j].message)

\* C20, for the paths that do not render to "__proto__": the output maps
\* the rendered path to the message.
C20_RenderingExceptProto ==
  op = "formatErrors" =>
    /\ formatted.t = "object"
    /\ \A j \in 1..Len(input) :
         RenderedPath(input[j].path) # <<"__proto__">> =>
           /\ RenderedPath(input[j].path) \in DOMAIN formatted.get
           /\ LastAtItsPath(j) =>
                formatted.get[RenderedPath(input[j].path)] = Str(input[j].message)

\* C20, for the path ["__proto__"]: the output holds no entry for it
C20_ProtoDropped ==
  op = "formatErrors" =>
    \A j \in 1..Len(input) :
      input[j].path = <<<<"__proto__">>>> => <<"__proto__">> \notin DOMAIN formatted.get

\* "a[12]" and "[0]." are the rendered keys of one output
C20_RenderedCases ==
  /\ op = "formatErrors"
  /\ Len(input) = 2
  /\ input[1].path = <<KeyA, <<"1", "2">> >>
  /\ input[2].path = << <<"0">>, <<>> >>
  /\ formatted.keys = << <<"a", "[", "1", "2", "]">>, <<"[", "0", "]", ".">> >>

\* the rendered paths of the errors handed to formatErrors
RenderedPaths == {RenderedPath(input[j].path) : j \in 1..Len(input)}

\* C21: formatErrors is last-write-wins: the output has exactly one entry
\* per distinct rendered path, and it maps a path several errors render to
\* to the message of the last of them in the list.
C21_LastWriteWins ==
  op = "formatErrors" =>
    /\ DOMAIN formatted.get = RenderedPaths
    /\ Len(formatted.keys) = Cardinality(RenderedPaths)
    /\ \A j \in 1..Len(input) :
         LastAtItsPath(j) =>
           formatted.get[RenderedPath(input[j].path)] = Str(input[j].message)

\* C21, the rendered path "__proto__" apart: one entry per other rendered
\* path, holding the message of the last error at it.
C21_LastWriteWinsExceptProto ==
  op = "formatErrors" =>
    /\ DOMAIN formatted.get = RenderedPaths \ {<<"__proto__">>}
    /\ Len(formatted.keys) = Cardinality(RenderedPaths \ {<<"__proto__">>})
    /\ \A j \in 1..Len(input) :
         (LastAtItsPath(j) /\ RenderedPath(input[j].path) # <<"__proto__">>) =>
           formatted.get[RenderedPath(input[j].path)] = Str(input[j].message)

\* two errors at the path ["a", "0"]: one entry "a[0]", with the message
\* of the second
C21_Overwritten ==
  /\ op = "formatErrors"
  /\ Len(input) = 2
  /\ input[1].path = input[2].path
  /\ input[1].path = <<KeyA, <<"0">> >>
  /\ formatted.keys = << <<"a", "[", "0", "]">> >>
  /\ formatted.get[<<"a", "[", "0", "]">>] = Str(input[2].message)

(***************************************************************************)
(* Every combinator                                                        *)
(***************************************************************************)
Combinators ==
  {"composeRight", "object", "array", "required", "optional", "union",
   "discriminatedUnion", "withCommonFields"}

\* what came back is an outcome: a success or a failure
IsOutcome(r) == DOMAIN r = {"ok", "value", "error"} /\ r.ok \in BOOLEAN

\* C22: under every combinator, for every input and path, a returned
\* failure carries at least one error (the leaves the combinators are built
\* from never fail with an empty list).
C22_FailureHasErrors ==
  (op \in Combinators /\ IsOutcome(res.out) /\ ~res.out.ok) => res.out.error # <<>>

\* a union whose only candidate, an object schema, fails with two errors
C22_Witness ==
  /\ op = "union"
  /\ Len(vdr.validators) = 1
  /\ vdr.validators[1].k = "object"
  /\ IsOutcome(res.out)
  /\ ~res.out.ok
  /\ Len(res.out.error) = 2

\* C23: every combinator returns a success or a failure outcome for every
\* input value (null, boolean, number, string, sequence, record, with any
\* string as discriminant or key) and every path; nothing else is returned
\* and nothing is thrown.
C23_Total ==
  op \in Combinators => IsOutcome(res.out)

\* the discriminant of the input names a member the variant map inherits
\* from Object.prototype and does not hold itself
InheritedDiscriminant ==
  /\ op = "discriminatedUnion"
  /\ HasDiscriminant
  /\ ~Registered(Discriminant)
  /\ Discriminant \in ProtoKeys

\* C23, calls of discriminatedUnion with such a discriminant apart: an
\* outcome is returned.
C23_TotalExceptInherited ==
  (op \in Combinators /\ ~InheritedDiscriminant) => IsOutcome(res.out)

\* C23, for such a discriminant: the input itself or the string
\* "[object Undefined]" comes back
C23_InheritedReturnsNoOutcome ==
  InheritedDiscriminant => res.out \in {input, Str(<<"[object Undefined]">>)}

(***************************************************************************)
(* Idempotence                                                             *)
(***************************************************************************)
RECURSIVE Uses(_, _)
\* the validator v is, or is built from, a validator of the kind k
Uses(v, k) ==
  \/ v.k = k
  \/ v.k = "composeRight" /\ \E j \in 1..Len(v.validators) : Uses(v.validators[j], k)
  \/ v.k = "object" /\ \E key \in DOMAIN v.schema.get : Uses(v.schema.get[key], k)
  \/ v.k = "array" /\ Uses(v.itemValidator, k)
  \/ v.k \in {"required", "optional"} /\ Uses(v.validator, k)

C24_DoubledTwice ==
  /\ op = "again"
  /\ vdr.k = "array"
  /\ input = Arr(<<N7>>)
  /\ res.out.value = Arr(<<Num(14)>>)
  /\ again = ok(Arr(<<Num(28)>>))

(***************************************************************************)
(* object: conforming inputs, error order, strict and non-strict           *)
(***************************************************************************)
\* the input record fully conforms to the schema, validated in strict mode:
\* no key outside the schema, and every field validator succeeds
Conforms ==
  /\ op = "object"
  /\ vdr.strict # Bool(FALSE)
  /\ IsRecord(input)
  /\ InputExtraKeys = {}
  /\ \A key \in DOMAIN vdr.schema.get : FieldOutcome(key).ok

C26_Threads ==
  op = "composeRight" =>
    /\ \A c \in 1..Len(res.log) :
         /\ res.log[c].i = c
         /\ res.log[c].p = path
         /\ res.log[c].x = IF c = 1 THEN input
                           ELSE Run(vdr.validators[c - 1], res.log[c - 1].x, path).value
    /\ (\A c \in 1..Len(res.log) : Run(vdr.validators[c], res.log[c].x, path).ok)
         => /\ Len(res.log) = Len(vdr.validators)
            /\ Len(res.log) > 0 =>
                 res.out = ok(Run(vdr.validators[Len(res.log)],
                                  res.log[Len(res.log)].x, path).value)

\* parseNumber() turned "12" into 12, which number() and parseNumber()
\* then received below the root
C26_Witness ==
  /\ op = "composeRight"
  /\ vdr.validators = <<ParseNumberV, NumberV, ParseNumberV>>
  /\ input = S12
  /\ path # <<>>
  /\ res.log[2].x = Num(12)
  /\ res.log[3].x = Num(12)
  /\ res.out = ok(Num(12))

\* the "Unexpected field" errors of the input's extra keys, in the order
\* the input enumerates its keys
ExtraKeyErrorsInOrder ==
  LET ks == SelectSeq(OwnKeys(input), LAMBDA key : key \notin DOMAIN vdr.schema.get)
  IN [j \in 1..Len(ks) |-> UnexpectedFieldError(ks[j])]

\* the value the input holds at key, undefined when it has no such key
OwnOrUndefined(key) ==
  IF key \in DOMAIN input.get THEN input.get[key] ELSE Undefined

\* the errors of the failing fields, field after field in the order the
\* schema enumerates its keys, given what each field validator received
FieldErrorsInOrder(received(_)) ==
  LET ks == OwnKeys(vdr.schema)
  IN Flatten([j \in 1..Len(ks) |->
                Run(vdr.schema.get[ks[j]], received(ks[j]), Append(path, ks[j])).error])

\* C27: in a failure of object(schema) the "Unexpected field" errors come
\* first, in the input's key order, then the errors of the fields in schema
\* key order, each field's errors together as its validator returned them;
\* a field whose key the input lacks is validated against undefined.
C27_ErrorOrder ==
  (op = "object" /\ IsRecord(input)) =>
    /\ \A c \in 1..Len(res.log) : res.log[c].x = OwnOrUndefined(res.log[c].i)
    /\ ~res.out.ok =>
         res.out.error = (IF vdr.strict # Bool(FALSE) THEN ExtraKeyErrorsInOrder ELSE <<>>)
                           \o FieldErrorsInOrder(OwnOrUndefined)

\* the schema declares a key the input lacks and Object.prototype holds
InheritedField ==
  \E key \in DOMAIN vdr.schema.get : key \notin DOMAIN input.get /\ key \in ProtoKeys

\* C27, schema keys that name inherited members apart: the order and the
\* undefined of absent keys are as claimed.
C27_ErrorOrderNotInherited ==
  (op = "object" /\ IsRecord(input) /\ ~InheritedField) =>
    /\ \A c \in 1..Len(res.log) : res.log[c].x = OwnOrUndefined(res.log[c].i)
    /\ ~res.out.ok =>
         res.out.error = (IF vdr.strict # Bool(FALSE) THEN ExtraKeyErrorsInOrder ELSE <<>>)
                           \o FieldErrorsInOrder(OwnOrUndefined)

\* C27, as the code has it: a field is validated against obj[key], which
\* for an absent key that names an inherited member is that member
C27_ErrorOrderOfReads ==
  (op = "object" /\ IsRecord(input)) =>
    /\ \A c \in 1..Len(res.log) : res.log[c].x = GetProp(input, res.log[c].i)
    /\ ~res.out.ok =>
         res.out.error = (IF vdr.strict # Bool(FALSE) THEN ExtraKeyErrorsInOrder ELSE <<>>)
                           \o FieldErrorsInOrder(LAMBDA key : GetProp(input, key))

\* extra keys "1" and "x" reported before the errors of the fields "a" and
\* "b", on an input that lists "b" before "a"
C27_OrderReached ==
  /\ op = "object"
  /\ IsRecord(input)
  /\ vdr.strict = Undefined
  /\ Len(ExtraKeyErrorsInOrder) = 2
  /\ Len(res.out.error) >= 4
  /\ OwnKeys(vdr.schema) = <<KeyA, KeyB>>
  /\ \E i, j \in 1..Len(input.keys) : i < j /\ input.keys[i] = KeyB /\ input.keys[j] = KeyA
  /\ res.out.error[3].path = Append(path, KeyA)

\* the same schema without the strict option's extra-key check
NonStrict == ObjectV(vdr.schema, Bool(FALSE))

\* C28: a failure of strict object(schema) lists the "Unexpected field"
\* errors of the extra keys and then exactly the errors of
\* object(schema, {strict: false}) on the same input; on an input with no
\* extra keys both modes return the same outcome.
C28_StrictIsNonStrictPlusExtras ==
  (op = "object" /\ vdr.strict # Bool(FALSE) /\ input.t \in {"object", "array"}) =>
    /\ ~res.out.ok =>
         res.out.error = ExtraKeyErrorsInOrder \o Run(NonStrict, input, path).error
    /\ Len(ExtraKeyErrorsInOrder) = 0 => res.out = Run(NonStrict, input, path)

\* a strict failure with one extra key ahead of two errors of the fields
C28_Witness ==
  /\ op = "object"
  /\ vdr.strict # Bool(FALSE)
  /\ IsRecord(input)
  /\ Len(ExtraKeyErrorsInOrder) = 1
  /\ Len(Run(NonStrict, input, path).error) = 2
  /\ Len(res.out.error) = 3

\* a strict call on an input with no extra keys that returns what the
\* non-strict call returns, a success holding two fields
C28_SameWithoutExtras ==
  /\ op = "object"
  /\ vdr.strict # Bool(FALSE)
  /\ IsRecord(input)
  /\ Len(input.keys) = 2
  /\ Len(ExtraKeyErrorsInOrder) = 0
  /\ res.out.ok
  /\ res.out = Run(NonStrict, input, path)

\* the outcome of composeRight over the given validators on the input
Composed(validators) == Run(ComposeRightV(validators), input, path)

\* C29: composeRight() succeeds with the input unchanged, composeRight(v)
\* returns what v returns, and composeRight(a, composeRight(b, c)),
\* composeRight(composeRight(a, b), c) and composeRight(a, b, c) return the
\* same outcome.
C29_IdentityAndAssociativity ==
  op = "composeRight" =>
    LET vs == vdr.validators
    IN /\ Len(vs) = 0 => res.out = ok(input)
       /\ Len(vs) = 1 => res.out = Run(vs[1], input, path)
       /\ Len(vs) = 3 =>
            /\ Composed(<<vs[1], ComposeRightV(<<vs[2], vs[3]>>)>>) = res.out
            /\ Composed(<<ComposeRightV(<<vs[1], vs[2]>>), vs[3]>>) = res.out
       /\ \A k \in 0..Len(vs) :
            Composed(<<ComposeRightV(SubSeq(vs, 1, k)),
                       ComposeRightV(SubSeq(vs, k + 1, Len(vs)))>>) = res.out

\* three steps of which the second changes the value, grouped either way
C29_Witness ==
  /\ op = "composeRight"
  /\ vdr.validators = <<StringV, ParseNumberV, NumberV>>
  /\ input = S12
  /\ res.out = ok(Num(12))
  /\ Composed(<<StringV, ComposeRightV(<<ParseNumberV, NumberV>>)>>) = res.out

\* composeRight() on an input, and composeRight(v) failing as v fails
C29_IdentityReached ==
  \/ op = "composeRight" /\ vdr.validators = <<>> /\ input = InnerGood /\ res.out = ok(InnerGood)
  \/ op = "composeRight" /\ vdr.validators = <<NumberV>> /\ input = S12 /\ ~res.out.ok

\* a path whose segments are all non-empty and hold none of '.', '[', ']'
WellFormed(p) ==
  \A n \in 1..Len(p) :
    /\ p[n] # <<>>
    /\ \A j \in 1..Len(p[n]) : p[n][j] \notin {".", "[", "]"}

\* C30: on well-formed paths the rendering of formatErrors is injective:
\* two different paths never render to the same string, so of two errors at
\* different well-formed paths neither overwrites the entry of the other.
C30_Injective ==
  op = "formatErrors" =>
    \A j, l \in 1..Len(input) :
      (/\ input[j].path # input[l].path
       /\ WellFormed(input[j].path)
       /\ WellFormed(input[l].path)) =>
        /\ formattedPath(input[j].path) # formattedPath(input[l].path)
        /\ formattedPath(input[j].path) \in DOMAIN formatted.get =>
             formatted.get[formattedPath(input[j].path)] = Str(input[j].message)

\* errors at ["a1"] and ["a", "1"], each with its own entry
C30_Witness ==
  /\ op = "formatErrors"
  /\ Len(input) = 2
  /\ input[1].path = <<<<"a", "1">>>>
  /\ input[2].path = <<KeyA, <<"1">>>>
  /\ formatted.keys = <<<<"a", "1">>, <<"a", "[", "1", "]">>>>
  /\ formatted.get[<<"a", "1">>] = Str(input[1].message)
  /\ formatted.get[<<"a", "[", "1", "]">>] = Str(input[2].message)

\* the empty path and the path of one empty segment both render to the
\* empty string, and the second error overwrites the first
C30_EmptySegmentCollides ==
  /\ op = "formatErrors"
  /\ Len(input) = 2
  /\ input[1].path = <<>>
  /\ input[2].path = <<<<>>>>
  /\ formatted.keys = <<<<>>>>
  /\ formatted.get[<<>>] = Str(input[2].message)

====
